---- MODULE Spec2Model ----
(***************************************************************************)
(* Model of the immi-ai chat application.                                  *)
(*                                                                         *)
(*   - the POST /api/chat handler (src/immi-ai-app/src/app/api/chat/       *)
(*     route.ts): one invocation per request, suspended at each await,     *)
(*     so invocations of different requests interleave;                    *)
(*   - the chat page (src/immi-ai-app/src/app/page.tsx): the React state   *)
(*     messages / input / isLoading and the handleSubmit callback.         *)
(*                                                                         *)
(* Text is modelled as a sequence of one-character strings, so that trim,  *)
(* join and the prompt template are computed as the code computes them.    *)
(* JavaScript values are tagged records: [t |-> "string", v |-> chars],    *)
(* [t |-> "null"], [t |-> "undefined"].                                    *)
(***************************************************************************)
EXTENDS Integers, Sequences, FiniteSets, TLC

VARIABLES
  messages,   \* page.tsx:25  useState<Message[]>([])
  input,      \* page.tsx:26  useState('')
  isLoading,  \* page.tsx:27  useState(false)
  outcome,    \* how the latest handleSubmit invocation ended (observation only)
  reqs        \* the requests to POST /api/chat that are being served

vars == <<messages, input, isLoading, outcome, reqs>>

----------------------------------------------------------------------------
(* Bounds of the model *)

\* number of requests that can be open at the same time
MaxConc == 2
\* the page accepts a submit only while the list has room for question and answer
MaxMsgs == 4

----------------------------------------------------------------------------
(* Program constants *)

\* route.ts:32  topK: 3
TopK == 3
\* route.ts:52  max_tokens: 500
MaxTokens == 500
\* route.ts:51  temperature: 0.7, in tenths
TemperatureTenths == 7
\* route.ts:74  { status: 500 }
StatusError == 500
\* NextResponse.json(response) without init: status 200
StatusOk == 200

\* route.ts:47
SystemPrefix ==
  <<"Y","o","u"," ","a","r","e"," ","a","n"," ","e","x","p","e","r","t"," ",
    "i","m","m","i","g","r","a","t","i","o","n"," ","a","s","s","i","s","t",
    "a","n","t","."," ","U","s","e"," ","t","h","i","s"," ","c","o","n","t",
    "e","x","t"," ","t","o"," ","a","n","s","w","e","r"," ","t","h","e"," ",
    "q","u","e","s","t","i","o","n",":"," ">>
\* route.ts:73
InternalServerError ==
  <<"I","n","t","e","r","n","a","l"," ","s","e","r","v","e","r"," ","e","r",
    "r","o","r">>
\* page.tsx:71
ErrorText ==
  <<"S","o","r","r","y",","," ","I"," ","e","n","c","o","u","n","t","e","r",
    "e","d"," ","a","n"," ","e","r","r","o","r","."," ","P","l","e","a","s",
    "e"," ","t","r","y"," ","a","g","a","i","n",".">>

----------------------------------------------------------------------------
(* JavaScript values *)

Undefined == [t |-> "undefined"]
Null == [t |-> "null"]
Str(s) == [t |-> "string", v |-> s]

\* ToBoolean, for the values that occur: '' , null and undefined are falsy
Truthy(x) == x.t = "string" /\ x.v # <<>>
\* a || b
OrElse(a, b) == IF Truthy(a) THEN a ELSE b
\* obj.key : undefined when the property is absent
Get(obj, key) == IF key \in DOMAIN obj THEN obj[key] ELSE Undefined

\* String.prototype.trim: white space and line terminators are removed from
\* both ends. A character that has no escape in a string of this module is
\* written as the name of its code point: "U+00A0" is one character.
WhiteSpace ==
  { " ", "\t", "\n", "\f", "\r", "U+000B", "U+00A0", "U+1680",
    "U+2000", "U+2001", "U+2002", "U+2003", "U+2004", "U+2005", "U+2006",
    "U+2007", "U+2008", "U+2009", "U+200A", "U+2028", "U+2029", "U+202F",
    "U+205F", "U+3000", "U+FEFF" }
RECURSIVE TrimStart(_)
TrimStart(s) ==
  IF s # <<>> /\ Head(s) \in WhiteSpace THEN TrimStart(Tail(s)) ELSE s
RECURSIVE TrimEnd(_)
TrimEnd(s) ==
  IF s # <<>> /\ s[Len(s)] \in WhiteSpace
    THEN TrimEnd(SubSeq(s, 1, Len(s) - 1)) ELSE s
\* a check that only looks for the empty string (if (!input) return)
TrimNothing(s) == s

Trim(s) == TrimEnd(TrimStart(s))

\* Array.prototype.join on an array of strings: R = first element, then for
\* every further element R = R + sep + element; '' for the empty array
RECURSIVE Join(_, _)
Join(strs, sep) ==
  IF strs = <<>> THEN <<>>
  ELSE IF Len(strs) = 1 THEN strs[1].v
  ELSE Join(SubSeq(strs, 1, Len(strs) - 1), sep) \o sep \o strs[Len(strs)].v

----------------------------------------------------------------------------
(* The upstream services: what a call can come back with *)

Ok(v) == [ok |-> TRUE, value |-> v]
Fail(e) == [ok |-> FALSE, error |-> e]

ApiError == [name |-> "APIError", message |-> <<"4","2","9">>]
TypeErr == [name |-> "TypeError", message |-> <<"u","n","d","e","f">>]
SyntaxErr == [name |-> "SyntaxError", message |-> <<"j","s","o","n">>]
NetworkErr == [name |-> "TypeError", message |-> <<"f","e","t","c","h">>]

\* embedding vectors the embedding service can answer with
Vectors == { <<1, 0>>, <<0, 1>> }

\* openai.embeddings.create: rejects, or resolves with { data: [...] }
EmbeddingReplies ==
  {Fail(ApiError), Ok([data |-> <<>>])}
    \cup {Ok([data |-> <<[embedding |-> v]>>]) : v \in Vectors}

\* stored passages: with text, with text holding a line break, with empty
\* text, with metadata that has no text, and without metadata
MatchA == [id |-> "doc-a", score |-> 9, metadata |-> [text |-> Str(<<"x">>)]]
MatchB ==
  [id |-> "doc-b", score |-> 7, metadata |-> [text |-> Str(<<"y","\n","z">>)]]
MatchEmpty == [id |-> "doc-c", score |-> 5, metadata |-> [text |-> Str(<<>>)]]
MatchNoText == [id |-> "doc-d", score |-> 4, metadata |-> [source |-> "f1.txt"]]
MatchNoMeta == [id |-> "doc-e", score |-> 8, metadata |-> Undefined]

\* the ordered match lists the index can answer with; the index returns at
\* most topK matches
MatchLists(topK) ==
  { ms \in { <<>>,
             <<MatchA>>,
             <<MatchNoMeta>>,
             <<MatchB, MatchA>>,
             <<MatchA, MatchNoText, MatchB>>,
             <<MatchA, MatchEmpty, MatchA>>,
             <<MatchB, MatchA, MatchNoMeta, MatchEmpty>> } : Len(ms) <= topK }

\* index.query: rejects, or resolves with { matches: [...] }
QueryReplies(topK) ==
  {Fail(ApiError)} \cup {Ok([matches |-> ms]) : ms \in MatchLists(topK)}

\* message.content of a chat completion is string | null
Contents == { Str(<<"o","k">>), Str(<<>>), Null }

\* openai.chat.completions.create: rejects, or resolves with { choices: [...] }
CompletionReplies ==
  {Fail(ApiError), Ok([choices |-> <<>>])}
    \cup {Ok([choices |-> <<[message |-> [content |-> c]]>>]) : c \in Contents}

----------------------------------------------------------------------------
(* JSON on the wire *)

\* JSON.stringify of an object whose values are strings, null, numbers, arrays
JsonStringify(obj) == [t |-> "json", v |-> obj]
\* a body that is not JSON
Malformed == [t |-> "malformed"]
\* Body.json(): parses the text, throws SyntaxError when it is not JSON
JsonParse(text) ==
  IF text.t = "json" THEN Ok(text.v) ELSE Fail(SyntaxErr)

\* NextResponse.json(body, { status })
NextResponseJson(body, status) ==
  [status |-> status, body |-> JsonStringify(body)]
\* Response.ok
ResponseOk(resp) == resp.status >= 200 /\ resp.status <= 299

----------------------------------------------------------------------------
(* One request to POST /api/chat *)

NoResponse == [status |-> 0, body |-> Malformed]

\* a slot that serves no request
FreeReq ==
  [ pc |-> "free", client |-> "none", body |-> Malformed,
    question |-> Undefined, embInput |-> Undefined,
    embeddings |-> [data |-> <<>>], queryVector |-> <<>>,
    queryTopK |-> 0, matches |-> <<>>, context |-> <<>>,
    complMessages |-> <<>>, response |-> NoResponse, log |-> <<>> ]

\* a request that arrived: POST is entered and waits for req.json()
NewRequest(client, body) ==
  [FreeReq EXCEPT !.pc = "awaitBody", !.client = client, !.body = body]

\* a catch block that reports the caught error's message to the caller
CatchResponseLeaky(error) ==
  NextResponseJson([error |-> Str(error.message)], StatusError)

\* route.ts:72-75
CatchResponse(error) ==
  NextResponseJson([error |-> Str(InternalServerError)], StatusError)

\* route.ts:70-76: the locals of the try block are out of scope
Catch(r, error) ==
  [FreeReq EXCEPT !.pc = "responded", !.client = r.client, !.log = r.log,
                  !.response = CatchResponse(error)]

\* a handler that starts the embedding call and an index query together
OnBodyParallel(r) ==
  LET parsed == JsonParse(r.body) IN
  IF ~parsed.ok THEN Catch(r, parsed.error)
  ELSE LET question == Get(parsed.value, "question") IN
       [r EXCEPT !.pc = "awaitEmbedding", !.question = question,
                 !.embInput = question,
                 !.log = @ \o <<"embedding.call", "index.call">>]

\* route.ts:20-26: const { question } = await req.json(); embeddings.create
OnBody(r) ==
  LET parsed == JsonParse(r.body) IN
  IF ~parsed.ok THEN Catch(r, parsed.error)
  ELSE LET question == Get(parsed.value, "question") IN
       [r EXCEPT !.pc = "awaitEmbedding", !.question = question,
                 !.embInput = question,
                 !.log = Append(@, "embedding.call")]

\* a handler that keeps the first embedding it sees in a module-level cache:
\* while the request in slot 1 holds a vector, every request queries with it
QueryVectorCached(embeddings) ==
  IF reqs[1].queryVector # <<>> THEN reqs[1].queryVector
  ELSE embeddings.data[1].embedding

\* route.ts:31  embeddings.data[0].embedding
QueryVector(embeddings) == embeddings.data[1].embedding

\* a handler that calls the embedding service a second time when the first
\* call fails
OnEmbeddingRetry(r, reply) ==
  IF ~reply.ok /\ "embedding.err" \notin {r.log[i] : i \in DOMAIN r.log}
    THEN [r EXCEPT !.log = @ \o <<"embedding.err", "embedding.call">>]
  ELSE IF ~reply.ok
    THEN Catch([r EXCEPT !.log = Append(@, "embedding.err")], reply.error)
  ELSE IF reply.value.data = <<>>
    THEN Catch([r EXCEPT !.log = Append(@, "embedding.ok")], TypeErr)
  ELSE [r EXCEPT !.pc = "awaitQuery",
                 !.embeddings = reply.value,
                 !.queryVector = QueryVector(reply.value),
                 !.queryTopK = TopK,
                 !.log = @ \o <<"embedding.ok", "index.call">>]

\* route.ts:29-34: index.query({ vector, topK: 3, includeMetadata: true })
OnEmbedding(r, reply) ==
  IF ~reply.ok
    THEN Catch([r EXCEPT !.log = Append(@, "embedding.err")], reply.error)
  ELSE IF reply.value.data = <<>>
    THEN Catch([r EXCEPT !.log = Append(@, "embedding.ok")], TypeErr)
  ELSE [r EXCEPT !.pc = "awaitQuery",
                 !.embeddings = reply.value,
                 !.queryVector = QueryVector(reply.value),
                 !.queryTopK = TopK,
                 !.log = @ \o <<"embedding.ok", "index.call">>]

\* route.ts:38  match.metadata?.text || ''
MatchText(match) ==
  OrElse(IF match.metadata = Undefined THEN Undefined
         ELSE Get(match.metadata, "text"),
         Str(<<>>))

\* route.ts:37-38  queryResponse.matches.map(...)
MatchTexts(matches) == [i \in 1..Len(matches) |-> MatchText(matches[i])]

\* a context that leaves out the matches without text (.filter(Boolean))
BuildContextFiltered(matches) ==
  Join(SelectSeq(MatchTexts(matches), Truthy), <<"\n">>)

\* route.ts:37-39
BuildContext(matches) == Join(MatchTexts(matches), <<"\n">>)

\* route.ts:44-50
PromptMessages(context, question) ==
  << [role |-> "system", content |-> Str(SystemPrefix \o context)],
     [role |-> "user", content |-> question] >>

\* route.ts:36-53
OnQuery(r, reply) ==
  IF ~reply.ok
    THEN Catch([r EXCEPT !.log = Append(@, "index.err")], reply.error)
  ELSE LET context == BuildContext(reply.value.matches) IN
       [r EXCEPT !.pc = "awaitCompletion",
                 !.matches = reply.value.matches,
                 !.context = context,
                 !.complMessages = PromptMessages(context, r.question),
                 !.log = @ \o <<"index.ok", "completion.call">>]

\* a source entry that also names the document
SourceWithId(match) == [relevance_score |-> match.score, id |-> match.id]

\* route.ts:63-65
SourceOf(match) == [relevance_score |-> match.score]

\* route.ts:63-65  queryResponse.matches.map(...)
Sources(matches) == [i \in 1..Len(matches) |-> SourceOf(matches[i])]

\* an envelope whose key_points repeat the answer
FormatResponseWithPoints(completion, matches) ==
  [ response |-> [ overview |-> completion.choices[1].message.content,
                   key_points |-> <<completion.choices[1].message.content>>,
                   follow_up |-> <<>> ],
    metadata |-> [ sources |-> Sources(matches) ] ]

\* route.ts:56-67
FormatResponse(completion, matches) ==
  [ response |-> [ overview |-> completion.choices[1].message.content,
                   key_points |-> <<>>,
                   follow_up |-> <<>> ],
    metadata |-> [ sources |-> Sources(matches) ] ]

\* route.ts:55-69
OnCompletion(r, reply) ==
  IF ~reply.ok
    THEN Catch([r EXCEPT !.log = Append(@, "completion.err")], reply.error)
  ELSE IF reply.value.choices = <<>>
    THEN Catch([r EXCEPT !.log = Append(@, "completion.ok")], TypeErr)
  ELSE [r EXCEPT !.pc = "responded",
                 !.response =
                   NextResponseJson(FormatResponse(reply.value, r.matches),
                                    StatusOk),
                 !.log = Append(@, "completion.ok")]

\* route.ts:69, 72: POST returns; a response for a client that no longer
\* listens is dropped, and the invocation is over
Return(r) ==
  IF r.pc = "responded" /\ r.client = "gone" THEN FreeReq ELSE r

Slots == 1..MaxConc
FreeSlots == {s \in Slots : reqs[s].pc = "free"}
\* a new request takes the first slot that serves none
NextSlot == CHOOSE s \in FreeSlots : \A u \in FreeSlots : s <= u

ParseBody(s) ==
  /\ reqs[s].pc = "awaitBody"
  /\ reqs' = [reqs EXCEPT ![s] = Return(OnBody(reqs[s]))]
  /\ UNCHANGED <<messages, input, isLoading, outcome>>

EmbeddingReply(s) ==
  /\ reqs[s].pc = "awaitEmbedding"
  /\ \E reply \in EmbeddingReplies :
       reqs' = [reqs EXCEPT ![s] = Return(OnEmbedding(reqs[s], reply))]
  /\ UNCHANGED <<messages, input, isLoading, outcome>>

QueryReply(s) ==
  /\ reqs[s].pc = "awaitQuery"
  /\ \E reply \in QueryReplies(reqs[s].queryTopK) :
       reqs' = [reqs EXCEPT ![s] = Return(OnQuery(reqs[s], reply))]
  /\ UNCHANGED <<messages, input, isLoading, outcome>>

CompletionReply(s) ==
  /\ reqs[s].pc = "awaitCompletion"
  /\ \E reply \in CompletionReplies :
       reqs' = [reqs EXCEPT ![s] = Return(OnCompletion(reqs[s], reply))]
  /\ UNCHANGED <<messages, input, isLoading, outcome>>


----------------------------------------------------------------------------
(* The chat page *)

\* what the user can type into the text field
Inputs == { <<>>, <<" ">>, <<"\f", "U+00A0">>, <<"a">>, <<"a", " ">> }

\* a form that can be submitted while a request is outstanding
SubmitNeverDisabled == FALSE

\* page.tsx:140-142: the form's only submit button is disabled while
\* isLoading, and a form whose default button is disabled is not submitted
SubmitDisabled == isLoading

\* a list update that puts the new question in front
PrependUser(prev, text) == <<[role |-> "user", content |-> Str(text)]>> \o prev

\* page.tsx:42-43
AppendUser(prev, text) == Append(prev, [role |-> "user", content |-> Str(text)])

\* page.tsx:61-66
AppendAnswer(prev, data) ==
  Append(prev, [role |-> "assistant",
                content |-> Get(data.response, "overview")])

\* a catch block that only logs the error
AppendErrorSilent(prev, error) == prev

\* a catch block that shows the caught error's message
AppendErrorMessage(prev, error) ==
  Append(prev, [role |-> "assistant", content |-> Str(error.message)])

\* page.tsx:67-73
AppendError(prev, error) ==
  Append(prev, [role |-> "assistant", content |-> Str(ErrorText)])

\* Number.prototype.toString of a natural number, as in a template literal
RECURSIVE NumberToString(_)
NumberToString(n) ==
  LET digit == <<"0","1","2","3","4","5","6","7","8","9">>[(n % 10) + 1] IN
  IF n < 10 THEN <<digit>> ELSE NumberToString(n \div 10) \o <<digit>>

\* page.tsx:57  new Error(`HTTP error! status: ${response.status}`)
HttpError(status) ==
  [ name |-> "Error",
    message |-> <<"H","T","T","P"," ","e","r","r","o","r","!"," ",
                  "s","t","a","t","u","s",":"," ">> \o NumberToString(status) ]

\* requests of the page whose fetch handleSubmit has not finished with
InFlight == {"awaitBody", "awaitEmbedding", "awaitQuery", "awaitCompletion",
             "responded"}
UiFetches == {s \in Slots : reqs[s].client = "ui" /\ reqs[s].pc # "free"}

\* page.tsx:136  onChange
Type(v) ==
  /\ v # input
  /\ input' = v
  /\ UNCHANGED <<messages, isLoading, outcome, reqs>>

\* page.tsx:38-54: the synchronous part of handleSubmit, up to the fetch
Submit ==
  /\ ~SubmitDisabled
  /\ IF Trim(input) = <<>>
       THEN UNCHANGED vars
       ELSE /\ Len(messages) + 2 <= MaxMsgs
            /\ FreeSlots # {}
            /\ messages' = AppendUser(messages, input)
            /\ input' = <<>>
            /\ isLoading' = TRUE
            /\ outcome' = "pending"
            /\ reqs' = [reqs EXCEPT ![NextSlot] =
                 NewRequest("ui", JsonStringify([question |-> Str(input)]))]

\* the request after handleSubmit has finished with it: a POST invocation
\* that has not returned yet is not ended by the page, it goes on with a
\* client that no longer listens
Abandon(r) ==
  IF r.pc \in {"awaitBody", "awaitEmbedding", "awaitQuery", "awaitCompletion"}
    THEN [r EXCEPT !.client = "gone"]
    ELSE FreeReq

\* page.tsx:67-76: catch and finally; the invocation of handleSubmit ends
Failed(s, error) ==
  /\ messages' = AppendError(messages, error)
  /\ isLoading' = FALSE
  /\ outcome' = "failed"
  /\ reqs' = [reqs EXCEPT ![s] = Abandon(reqs[s])]
  /\ UNCHANGED input

\* page.tsx:48-58: the fetch resolves with the handler's response
FetchResolve(s) ==
  /\ reqs[s].client = "ui"
  /\ reqs[s].pc = "responded"
  /\ IF ~ResponseOk(reqs[s].response)
       THEN Failed(s, HttpError(reqs[s].response.status))
       ELSE /\ reqs' = [reqs EXCEPT ![s].pc = "reading"]
            /\ UNCHANGED <<messages, input, isLoading, outcome>>

\* page.tsx:48: the fetch rejects (the network fails); the handler goes on
\* with the request, and nothing it does afterwards reaches the page
FetchReject(s) ==
  /\ reqs[s].client = "ui"
  /\ reqs[s].pc \in InFlight
  /\ Failed(s, NetworkErr)

\* a handleSubmit that resets isLoading in its catch block only
JsonResolveNoFinally(s) ==
  /\ reqs[s].client = "ui"
  /\ reqs[s].pc = "reading"
  /\ LET data == JsonParse(reqs[s].response.body) IN
     IF ~data.ok THEN Failed(s, data.error)
     ELSE IF Get(data.value, "response") \in {Undefined, Null}
       THEN Failed(s, TypeErr)
     ELSE /\ messages' = AppendAnswer(messages, data.value)
          /\ outcome' = "answered"
          /\ reqs' = [reqs EXCEPT ![s] = FreeReq]
          /\ UNCHANGED <<input, isLoading>>

\* page.tsx:60-66, 74-76: the body is read and parsed
JsonResolve(s) ==
  /\ reqs[s].client = "ui"
  /\ reqs[s].pc = "reading"
  /\ LET data == JsonParse(reqs[s].response.body) IN
     IF ~data.ok THEN Failed(s, data.error)
     ELSE IF Get(data.value, "response") \in {Undefined, Null}
       THEN Failed(s, TypeErr)
     ELSE /\ messages' = AppendAnswer(messages, data.value)
          /\ isLoading' = FALSE
          /\ outcome' = "answered"
          /\ reqs' = [reqs EXCEPT ![s] = FreeReq]
          /\ UNCHANGED input

\* page.tsx:60: reading the body fails
JsonReject(s) ==
  /\ reqs[s].client = "ui"
  /\ reqs[s].pc = "reading"
  /\ Failed(s, NetworkErr)

----------------------------------------------------------------------------
(* Other clients of the endpoint *)

\* bodies a client can post
DirectBodies ==
  { Malformed,
    JsonStringify([question |-> Str(<<>>)]),
    JsonStringify([question |-> Str(<<"b">>)]) }

\* a client posts to /api/chat
DirectRequest(body) ==
  /\ FreeSlots # {}
  /\ reqs' = [reqs EXCEPT ![NextSlot] = NewRequest("direct", body)]
  /\ UNCHANGED <<messages, input, isLoading, outcome>>

\* the client receives the response
DirectReceive(s) ==
  /\ reqs[s].client = "direct"
  /\ reqs[s].pc = "responded"
  /\ reqs' = [reqs EXCEPT ![s] = FreeReq]
  /\ UNCHANGED <<messages, input, isLoading, outcome>>

----------------------------------------------------------------------------
(* Specifications *)

Init ==
  /\ messages = <<>>
  /\ input = <<>>
  /\ isLoading = FALSE
  /\ outcome = "idle"
  /\ reqs = [s \in Slots |-> FreeReq]

\* the page and the handler serving it
Next ==
  \/ \E v \in Inputs : Type(v)
  \/ Submit
  \/ \E s \in Slots : ParseBody(s)
  \/ \E s \in Slots : EmbeddingReply(s)
  \/ \E s \in Slots : QueryReply(s)
  \/ \E s \in Slots : CompletionReply(s)
  \/ \E s \in Slots : FetchResolve(s)
  \/ \E s \in Slots : FetchReject(s)
  \/ \E s \in Slots : JsonResolve(s)
  \/ \E s \in Slots : JsonReject(s)

Spec == Init /\ [][Next]_vars

\* the handler serving concurrent requests of other clients
NextServer ==
  \/ \E body \in DirectBodies : DirectRequest(body)
  \/ \E s \in Slots : ParseBody(s)
  \/ \E s \in Slots : EmbeddingReply(s)
  \/ \E s \in Slots : QueryReply(s)
  \/ \E s \in Slots : CompletionReply(s)
  \/ \E s \in Slots : DirectReceive(s)

SpecServer == Init /\ [][NextServer]_vars

----------------------------------------------------------------------------
(* Properties *)

Events(r) == {r.log[i] : i \in DOMAIN r.log}
UpstreamFailed(r) ==
  Events(r) \cap {"embedding.err", "index.err", "completion.err"} # {}
Answered(r) == r.pc \in {"responded", "reading"}
Succeeded(r) == Answered(r) /\ r.response.status = 200
Envelope(r) == r.response.body.v

\* C1: a request in which the embedding call, the index query or the chat
\* completion failed is answered with status 500 and the body
\* { error: 'Internal server error' }, the same whichever call failed, and
\* never with an envelope or a part of one.
C1_UniformError ==
  \A s \in Slots :
    UpstreamFailed(reqs[s]) =>
      /\ reqs[s].pc = "responded"
      /\ reqs[s].response.status = 500
      /\ reqs[s].response.body =
           [t |-> "json", v |-> [error |-> Str(InternalServerError)]]

\* C1 witness: answered requests whose failures were at different calls
C1_Witness ==
  \E s, u \in Slots :
    /\ reqs[s].pc = "responded" /\ "index.err" \in Events(reqs[s])
    /\ reqs[u].pc = "responded" /\ "completion.err" \in Events(reqs[u])
    /\ reqs[s].response = reqs[u].response

IsCall(e) == e \in {"embedding.call", "index.call", "completion.call"}
RepliesTo(e) ==
  CASE e = "embedding.call" -> {"embedding.ok", "embedding.err"}
    [] e = "index.call" -> {"index.ok", "index.err"}
    [] e = "completion.call" -> {"completion.ok", "completion.err"}
    [] OTHER -> {}

\* C2: within a request the index query is started only after the embedding
\* call succeeded, the chat completion only after the index query succeeded,
\* and a call is started only when every earlier call of the request has
\* returned (no two calls of a request are outstanding together).
C2_Sequential ==
  \A s \in Slots :
    LET log == reqs[s].log IN
    \A i \in DOMAIN log :
      /\ log[i] = "index.call" =>
           \E j \in 1..(i - 1) : log[j] = "embedding.ok"
      /\ log[i] = "completion.call" =>
           \E j \in 1..(i - 1) : log[j] = "index.ok"
      /\ IsCall(log[i]) /\ i < Len(log) => log[i + 1] \in RepliesTo(log[i])

\* C2 witness: a request whose three calls were all made
C2_Witness ==
  \E s \in Slots :
    /\ reqs[s].pc = "awaitCompletion"
    /\ reqs[s].log = <<"embedding.call", "embedding.ok", "index.call",
                       "index.ok", "completion.call">>

\* C3: every response with status 200 is an envelope
\* { response: { overview, key_points, follow_up }, metadata: { sources } }
\* whose key_points and follow_up are empty.
C3_FixedEnvelope ==
  \A s \in Slots :
    Succeeded(reqs[s]) =>
      LET b == Envelope(reqs[s]) IN
      /\ DOMAIN b = {"response", "metadata"}
      /\ DOMAIN b.response = {"overview", "key_points", "follow_up"}
      /\ DOMAIN b.metadata = {"sources"}
      /\ b.response.key_points = <<>>
      /\ b.response.follow_up = <<>>

\* C3 witness: a success response with an answer and three sources
C3_Witness ==
  \E s \in Slots :
    /\ Succeeded(reqs[s])
    /\ Envelope(reqs[s]).response.overview = Str(<<"o", "k">>)
    /\ Len(Envelope(reqs[s]).metadata.sources) = 3

\* C4: for a non-empty question a success response has a non-empty text as
\* overview and at most 3 sources.
C4_NonEmptyOverview ==
  \A s \in Slots :
    ( /\ Succeeded(reqs[s])
      /\ reqs[s].question.t = "string"
      /\ reqs[s].question.v # <<>> ) =>
      LET b == Envelope(reqs[s]) IN
      /\ b.response.overview.t = "string"
      /\ b.response.overview.v # <<>>
      /\ Len(b.metadata.sources) <= 3

StaticErrorMessage == [role |-> "assistant", content |-> Str(ErrorText)]

\* C5: the page has at most one request outstanding; while it is outstanding
\* (from the fetch until handleSubmit has handled its result) isLoading is
\* true and the submit control is disabled.
C5_OneInFlight ==
  /\ Cardinality(UiFetches) <= 1
  /\ UiFetches # {} => isLoading /\ SubmitDisabled

\* C5 witness: a request is outstanding and the user has typed a further
\* question
C5_Witness ==
  /\ \E s \in UiFetches : reqs[s].pc = "awaitCompletion"
  /\ Trim(input) # <<>>

\* a step in which handleSubmit handles a failed request of slot s: the
\* endpoint answered with an error status, or the invocation ended in its
\* catch block (the fetch rejected, the body could not be read)
FailureStep(s) ==
  /\ reqs[s].client = "ui"
  /\ reqs[s].pc # "free"
  /\ reqs'[s].client # "ui"
  /\ \/ reqs[s].pc = "responded" /\ reqs[s].response.status = StatusError
     \/ outcome' = "failed"

\* C6: when a request of the page fails, handleSubmit appends exactly one
\* message, the assistant message with the static text, and isLoading is
\* false afterwards, so the submit control is enabled.
C6_ErrorFallback ==
  [][ \A s \in Slots :
        FailureStep(s) =>
          /\ messages' = Append(messages, StaticErrorMessage)
          /\ isLoading' = FALSE
          /\ ~SubmitDisabled' ]_vars

\* C6 witness: two questions failed; each is followed by the static message
\* and the page accepts input again
C6_Witness ==
  /\ outcome = "failed"
  /\ ~isLoading
  /\ Len(messages) = 4
  /\ messages[2] = StaticErrorMessage
  /\ messages[4] = StaticErrorMessage

\* C7: what a request passes to the upstream services and returns is derived
\* from its own question and its own upstream replies: the embedding input
\* is its question, the query vector its embedding reply, the context and
\* the prompt come from its matches and its question, the sources from its
\* matches.
C7_Independent ==
  \A s \in Slots :
    LET r == reqs[s] IN
    /\ r.pc \in {"awaitEmbedding", "awaitQuery", "awaitCompletion"} =>
         /\ r.question = Get(r.body.v, "question")
         /\ r.embInput = Get(r.body.v, "question")
    /\ r.pc \in {"awaitQuery", "awaitCompletion"} =>
         r.queryVector = r.embeddings.data[1].embedding
    /\ r.pc = "awaitCompletion" =>
         /\ r.complMessages[1].content.v =
              SystemPrefix \o Join(MatchTexts(r.matches), <<"\n">>)
         /\ r.complMessages[2].content = Get(r.body.v, "question")
    /\ Succeeded(r) =>
         /\ Len(Envelope(r).metadata.sources) = Len(r.matches)
         /\ \A i \in DOMAIN r.matches :
              Envelope(r).metadata.sources[i].relevance_score
                = r.matches[i].score

\* C7 witness: two requests are served together, with different questions,
\* different embeddings and different matches
C7_Witness ==
  \E s, u \in Slots :
    /\ reqs[s].pc = "awaitCompletion" /\ reqs[u].pc = "awaitCompletion"
    /\ reqs[s].question # reqs[u].question
    /\ reqs[s].queryVector # reqs[u].queryVector
    /\ reqs[s].context # reqs[u].context

\* C8: the message list only grows at its end, by one message per step; an
\* appended user message is the question of a request that starts in this
\* step, an appended assistant message follows a user message.
C8_AppendOnly ==
  [][ /\ Len(messages') >= Len(messages)
      /\ Len(messages') <= Len(messages) + 1
      /\ SubSeq(messages', 1, Len(messages)) = messages
      /\ Len(messages') = Len(messages) + 1 =>
           LET m == messages'[Len(messages')] IN
           /\ m.role = "user" =>
                \E s \in Slots :
                  /\ reqs[s].pc = "free" /\ reqs'[s].pc = "awaitBody"
                  /\ reqs'[s].body.v.question = m.content
           /\ m.role = "assistant" =>
                /\ messages # <<>>
                /\ messages[Len(messages)].role = "user" ]_vars

\* C8 witness: two questions, each followed by its answer
C8_Witness ==
  /\ Len(messages) = 4
  /\ messages[1].role = "user" /\ messages[2].role = "assistant"
  /\ messages[3].role = "user" /\ messages[4].role = "assistant"
  /\ messages[2].content = Str(<<"o", "k">>)

\* the text of a match as the context shows it: its metadata's text, or
\* the empty text when the match has none
TextOrEmpty(match) ==
  IF /\ match.metadata # Undefined
     /\ "text" \in DOMAIN match.metadata
     /\ match.metadata.text.t = "string"
    THEN match.metadata.text.v ELSE <<>>

\* the place in the context after which the text of match i starts
RECURSIVE Offset(_, _)
Offset(matches, i) ==
  IF i = 1 THEN 0
  ELSE Offset(matches, i - 1) + Len(TextOrEmpty(matches[i - 1])) + 1

\* C9: the context in the system prompt consists of the texts of the
\* matches in the order of the index, one segment per match (the empty text
\* for a match without text), separated by single line breaks, and is empty
\* when there is no match.
C9_ContextJoin ==
  \A s \in Slots :
    LET r == reqs[s]
        n == Len(r.matches)
    IN r.pc = "awaitCompletion" =>
         /\ r.complMessages[1].content = Str(SystemPrefix \o r.context)
         /\ Len(r.context) =
              IF n = 0 THEN 0
              ELSE Offset(r.matches, n) + Len(TextOrEmpty(r.matches[n]))
         /\ \A i \in 1..n :
              LET off == Offset(r.matches, i)
                  txt == TextOrEmpty(r.matches[i])
              IN /\ SubSeq(r.context, off + 1, off + Len(txt)) = txt
                 /\ i > 1 => r.context[off] = "\n"

\* C9 witness: three matches, the second without text
C9_Witness ==
  \E s \in Slots :
    /\ reqs[s].pc = "awaitCompletion"
    /\ reqs[s].matches = <<MatchA, MatchNoText, MatchB>>
    /\ reqs[s].context = <<"x", "\n", "\n", "y", "\n", "z">>

\* C10: the sources of a success response are one entry per match, in the
\* order of the index, each holding the match's score as relevance_score
\* and nothing else.
C10_SourcesAreScores ==
  \A s \in Slots :
    Succeeded(reqs[s]) =>
      LET sources == Envelope(reqs[s]).metadata.sources IN
      /\ Len(sources) = Len(reqs[s].matches)
      /\ \A i \in DOMAIN sources :
           /\ DOMAIN sources[i] = {"relevance_score"}
           /\ sources[i].relevance_score = reqs[s].matches[i].score

\* C10 witness: a success response for three matches whose scores are not
\* in descending order
C10_Witness ==
  \E s \in Slots :
    /\ Succeeded(reqs[s])
    /\ reqs[s].matches = <<MatchA, MatchNoText, MatchB>>
    /\ Envelope(reqs[s]).metadata.sources =
         << [relevance_score |-> 9], [relevance_score |-> 4],
            [relevance_score |-> 7] >>

\* how often event e is in the call trace of a request
Count(log, e) == Cardinality({i \in DOMAIN log : log[i] = e})

\* C11: a request calls each upstream service at most once; after a failed
\* embedding call it makes no index query and no chat completion, after a
\* failed index query no chat completion; and every request that is past a
\* step has made that step's call itself, also when another request with
\* the same question is or was served.
C11_NoRetryNoReuse ==
  \A s \in Slots :
    LET r == reqs[s]
        log == r.log
    IN /\ Count(log, "embedding.call") <= 1
       /\ Count(log, "index.call") <= 1
       /\ Count(log, "completion.call") <= 1
       /\ "embedding.err" \in Events(r) =>
            "index.call" \notin Events(r) /\ "completion.call" \notin Events(r)
       /\ "index.err" \in Events(r) => "completion.call" \notin Events(r)
       /\ r.pc \in {"awaitEmbedding", "awaitQuery", "awaitCompletion"} =>
            Count(log, "embedding.call") = 1
       /\ r.pc \in {"awaitQuery", "awaitCompletion"} =>
            Count(log, "index.call") = 1
       /\ Succeeded(r) =>
            /\ Count(log, "embedding.call") = 1
            /\ Count(log, "index.call") = 1
            /\ Count(log, "completion.call") = 1

\* C11 witness: two requests with the same question are served together and
\* each has made its own
\* embedding call and index query
C11_Witness ==
  \E s, u \in Slots :
    /\ s # u
    /\ reqs[s].pc = "awaitCompletion" /\ reqs[u].pc = "awaitCompletion"
    /\ reqs[s].question = reqs[u].question
    /\ reqs[s].question = Str(<<"b">>)
    /\ Count(reqs[s].log, "index.call") = 1
    /\ Count(reqs[u].log, "index.call") = 1

Awaiting == {"awaitEmbedding", "awaitQuery", "awaitCompletion"}

\* C12, as stated: while an upstream call made for a request of the page
\* has not returned, the page keeps isLoading true.
C12_LoadingUntilResponse ==
  [][ \A s \in Slots :
        ( /\ reqs[s].client = "ui"
          /\ reqs[s].pc \in Awaiting
          /\ reqs'[s].pc = reqs[s].pc ) => isLoading' ]_vars

\* C12, amended: a handler that waits for an upstream call produces a
\* response only in the step in which that call returns; the page keeps
\* isLoading true and the submit control disabled for as long as it has not
\* finished with its fetch, and only finishing with it ends loading (the
\* fetch can be rejected while the handler waits); a fetch that resolves
\* with a success status leaves isLoading true while the body is read, and
\* every step in which handleSubmit finishes with a fetch (rejected, error
\* status, body read or body unreadable) leaves isLoading false.
C12_NoTimeout ==
  /\ [][ \A s \in Slots :
           reqs[s].pc \in Awaiting /\ reqs'[s].pc = "responded" =>
             /\ Len(reqs'[s].log) = Len(reqs[s].log) + 1
             /\ reqs'[s].log[Len(reqs'[s].log)]
                  \in RepliesTo(reqs[s].log[Len(reqs[s].log)]) ]_vars
  /\ [](UiFetches # {} => isLoading /\ SubmitDisabled)
  /\ [][ isLoading /\ ~isLoading' =>
           \E s \in UiFetches : reqs'[s].client # "ui" ]_vars
  /\ [][ \A s \in UiFetches :
           /\ reqs'[s].pc = "reading" => isLoading'
           /\ reqs'[s].client # "ui" => ~isLoading' /\ ~SubmitDisabled' ]_vars

\* C12 witness: the handler waits for the chat completion, no response
\* exists, the page is loading and its submit control is disabled
C12_Witness ==
  \E s \in Slots :
    /\ reqs[s].client = "ui"
    /\ reqs[s].pc = "awaitCompletion"
    /\ reqs[s].response = NoResponse
    /\ isLoading
    /\ SubmitDisabled

\* the page sends a request in this step
Issued(s) ==
  /\ reqs[s].pc = "free"
  /\ reqs'[s].pc = "awaitBody"
  /\ reqs'[s].client = "ui"
HasVisibleChar(text) == \E i \in DOMAIN text : text[i] \notin WhiteSpace

\* C13: while the input is empty or only white space no step sends a
\* request, appends a user message or turns isLoading on, so a submit in
\* that state changes nothing; every request the page sends carries a
\* question with a character that is not white space, and that question is
\* the input as typed, which is also the content of the user message
\* appended in the same step.
C13_BlankSubmitNoOp ==
  /\ [][ ~HasVisibleChar(input) =>
           /\ \A s \in Slots : ~Issued(s)
           /\ \/ Len(messages') <= Len(messages)
              \/ messages'[Len(messages')].role # "user"
           /\ isLoading' => isLoading ]_vars
  /\ [][ \A s \in Slots :
           Issued(s) =>
             /\ HasVisibleChar(input)
             /\ reqs'[s].body = [t |-> "json", v |-> [question |-> Str(input)]]
             /\ messages' =
                  Append(messages, [role |-> "user", content |-> Str(input)])
       ]_vars

\* C13 witness: the question "a " was sent with its trailing blank, and the
\* user message shows it the same way
C13_Witness ==
  \E s \in Slots :
    /\ reqs[s].client = "ui"
    /\ reqs[s].pc = "awaitBody"
    /\ reqs[s].body.v.question = Str(<<"a", " ">>)
    /\ messages[Len(messages)] =
         [role |-> "user", content |-> Str(<<"a", " ">>)]
    /\ ~HasVisibleChar(input)

\* C14: the messages alternate user, assistant, user, ... from a user
\* message on; the list ends with a user message exactly when isLoading is
\* true, which is exactly while a request of the page is outstanding, so
\* every question whose request has been handled is followed by one
\* assistant message.
C14_Alternating ==
  /\ \A i \in DOMAIN messages :
       messages[i].role = IF i % 2 = 1 THEN "user" ELSE "assistant"
  /\ isLoading <=>
       (messages # <<>> /\ messages[Len(messages)].role = "user")
  /\ isLoading <=> UiFetches # {}
  /\ UiFetches = {} => Len(messages) % 2 = 0

\* C14 witness: a first question was answered with the error message, a
\* second with an answer, and nothing is outstanding
C14_Witness ==
  /\ Len(messages) = 4
  /\ messages[2] = StaticErrorMessage
  /\ messages[4].role = "assistant"
  /\ messages[4].content = Null
  /\ ~isLoading
  /\ UiFetches = {}
====
